---- MODULE Spec2Model ----
(***************************************************************************)
(* mipsec.py: a monitor that compares the configured strongSwan CHILD_SAs  *)
(* with the live ones reported over VICI and resets (ipsec down / ipsec    *)
(* up) the ones that are not INSTALLED.                                    *)
(*                                                                         *)
(* A text string is a sequence of characters, a character is a one-token   *)
(* string; "1/2" stands for U+00BD (VULGAR FRACTION ONE HALF), a character *)
(* for which str.isnumeric() is True although it is not a decimal digit.   *)
(* A bytes object is a sequence of byte values.                            *)
(***************************************************************************)
EXTENDS Integers, Sequences, FiniteSets, TLC

\* ------------------------------------------------------------------ bounds
MaxConfig == 1        \* names in the YAML configuration file
MaxCli == 1           \* names given on the command line
MaxRecords == 2       \* child-SA records one list_sas() query delivers
MaxRetriesArg == 3    \* largest --max-retries
MaxRetryDelay == 1    \* largest --retry-delay

\* ------------------------------------------------------- program constants
SettleDelay == 1
DefaultInterval == 300
DefaultMaxRetries == 3
DefaultRetryDelay == 2
ExitBadArguments == 1
ExitNoTunnels == 1
ExitNotList == 2
ExitNotString == 3
ExitConfigError == 4
ExitNoSession == 5
ExitInterrupted == 0
ExitFatal == 6
\* exit status of the interpreter for an exception nobody catches
ExitUncaught == 1
\* exit status of the interpreter for a KeyboardInterrupt nobody catches
ExitSigInt == 130
\* "no value yet" for result and exitCode
None == -1

\* ------------------------------------------------------------ text helpers
DecimalChars == {"7"}
NumericChars == {"7", "1/2"}

\* str.rfind(c): 0-based index of the last occurrence, -1 when there is none
RECURSIVE rfindFrom(_, _, _)
rfindFrom(s, c, i) ==
    IF i = 0 THEN -1
    ELSE IF s[i] = c THEN i - 1
    ELSE rfindFrom(s, c, i - 1)

\* str.find(c): the first occurrence instead
find(s, c) ==
    IF \E i \in 1..Len(s) : s[i] = c
    THEN (CHOOSE i \in 1..Len(s) : s[i] = c /\ \A j \in 1..(i - 1) : s[j] # c) - 1
    ELSE -1

rfind(s, c) == rfindFrom(s, c, Len(s))

\* str.isnumeric(): non-empty and every character has a Unicode numeric value
isnumeric(s) ==
    /\ Len(s) > 0
    /\ \A i \in 1..Len(s) : s[i] \in NumericChars

\* x in list
In(x, l) == \E i \in 1..Len(l) : l[i] = x

\* list.remove(x): drops the first occurrence of x (x is in the list)
Remove(l, x) ==
    LET i == CHOOSE k \in 1..Len(l) : l[k] = x /\ \A j \in 1..(k - 1) : l[j] # x
    IN  SubSeq(l, 1, i - 1) \o SubSeq(l, i + 1, Len(l))

\* UTF-8: the bytes of one character, and the decoder str(b, "UTF-8")
Utf8Char(c) ==
    CASE c = "a" -> <<97>>
      [] c = "b" -> <<98>>
      [] c = "x" -> <<120>>
      [] c = "-" -> <<45>>
      [] c = "7" -> <<55>>
      [] c = "1/2" -> <<194, 189>>

RECURSIVE Utf8Encode(_)
Utf8Encode(s) ==
    IF s = <<>> THEN <<>> ELSE Utf8Char(Head(s)) \o Utf8Encode(Tail(s))

\* decoding yields [ok |-> TRUE, text |-> ...] or ok = FALSE (UnicodeDecodeError)
RECURSIVE Utf8Decode(_)
Utf8Decode(b) ==
    IF b = <<>> THEN [ok |-> TRUE, text |-> <<>>]
    ELSE IF Head(b) < 128 THEN
        LET c == CASE Head(b) = 97 -> "a"
                   [] Head(b) = 98 -> "b"
                   [] Head(b) = 120 -> "x"
                   [] Head(b) = 45 -> "-"
                   [] Head(b) = 55 -> "7"
            r == Utf8Decode(Tail(b))
        IN  [ok |-> r.ok, text |-> <<c>> \o r.text]
    ELSE IF Head(b) = 194 /\ Len(b) >= 2 /\ b[2] = 189 THEN
        LET r == Utf8Decode(Tail(Tail(b)))
        IN  [ok |-> r.ok, text |-> <<"1/2">> \o r.text]
    ELSE [ok |-> FALSE, text |-> <<>>]

\* ------------------------------------------------------------------ inputs
\* names a configuration file or the command line may carry (CHILD_SA
\* configuration names: not empty)
TunnelNames == { <<"a">>, <<"b">>, <<"a", "-", "7">> }

\* what a live identifier may add to a configured name
Suffixes ==
    { <<>>, <<"-">>, <<"-", "7">>, <<"-", "7", "7">>, <<"-", "x">>,
      <<"-", "1/2">>, <<"-", "7", "x">> }

RecordNames == { n \o s : n \in TunnelNames \cup { <<>> }, s \in Suffixes }

States == { "INSTALLED", "CONNECTING" }

Range(l) == { l[i] : i \in 1..Len(l) }

\* the names used where every --max-retries and --retry-delay is tried
PlainNames == { <<"a">>, <<"b">> }

SeqUpTo(S, n) == UNION { [1..k -> S] : k \in 0..n }

\* the YAML file: unreadable, not a list, a list with a non-string, a read
\* error, or a list of strings
ConfigFiles ==
    { [kind |-> k, names |-> <<>>] : k \in {"missing", "notlist", "nonstr", "error"} }
    \cup { [kind |-> "list", names |-> l] : l \in SeqUpTo(TunnelNames, MaxConfig) }

\* a child-SA entry as vici delivers it: key and state value, each bytes or str
RawNames ==
    { [type |-> "str", data |-> n] : n \in RecordNames }
    \cup { [type |-> "bytes", data |-> Utf8Encode(n)] : n \in RecordNames }
    \cup { [type |-> "bytes", data |-> <<97, 194>>] }

RawStates == { [type |-> t, data |-> s] : t \in {"bytes", "str"}, s \in States }

RawRecords ==
    { [wellformed |-> TRUE, name |-> n, state |-> s] : n \in RawNames, s \in RawStates }
    \cup { [wellformed |-> FALSE, name |-> [type |-> "str", data |-> <<>>],
            state |-> [type |-> "str", data |-> "INSTALLED"]] }

NoRecord == [name |-> <<>>, state |-> "none"]

VARIABLES
    pc,           \* position of the process
    daemon,       \* args.daemon
    interval,     \* args.interval
    configFile,   \* content found at args.config
    cliTunnels,   \* args.tunnels
    tunnels,      \* self.tunnels
    max_retries,  \* self.max_retries
    retry_delay,  \* self.retry_delay
    downTunnels,  \* run: downTunnels
    rec,          \* run: name and state of the record processed last
    prevDown,     \* run: downTunnels when that record was taken up
    nrec,         \* run: records taken from list_sas() in this cycle
    seenUp,       \* names N for which this cycle delivered an INSTALLED record N or N-<decimal digits>
    idx,          \* resetTunnels: position in downTunnels (1-based)
    action,       \* _run_ipsec_command: action
    attempt,      \* _run_ipsec_command: attempt
    cmdResult,    \* value the last _run_ipsec_command returned
    log,          \* resetTunnels: the subprocess.run and time.sleep calls made for downTunnels[idx]
    reports,      \* resetTunnels: the entries of downTunnels dealt with, and how each ended
    result,       \* value run returned
    exitCode,     \* exit status of the process
    raised        \* the exception raised last outside the per-attempt outcomes

vars == << pc, daemon, interval, configFile, cliTunnels, tunnels, max_retries,
           retry_delay, downTunnels, rec, prevDown, nrec, seenUp, idx, action,
           attempt, cmdResult, log, reports, result, exitCode, raised >>

argVars == << daemon, interval, configFile, cliTunnels, max_retries, retry_delay >>
matchVars == << downTunnels, rec, prevDown, nrec, seenUp >>
cmdVars == << idx, action, attempt, cmdResult >>
logVars == << log, reports >>

\* ----------------------------------------------------------- construction
\* loadConfiguration: the names read, or the exit status of a fatal error
loadConfiguration(file) ==
    CASE file.kind = "missing" -> [exit |-> None, names |-> <<>>]
      [] file.kind = "notlist" -> [exit |-> ExitNotList, names |-> <<>>]
      [] file.kind = "nonstr" -> [exit |-> ExitNotString, names |-> <<>>]
      [] file.kind = "error" -> [exit |-> ExitConfigError, names |-> <<>>]
      [] file.kind = "list" -> [exit |-> None, names |-> file.names]

\* TunnelChecker.__init__: self.tunnels, or the exit status of a fatal error
TunnelCheckerInit(file, cli, sessionOk) ==
    LET loaded == loadConfiguration(file)
    IN  IF loaded.exit # None THEN [exit |-> loaded.exit, tunnels |-> <<>>]
        ELSE IF ~(Len(cli) > 0) /\ loaded.names = <<>>
             THEN [exit |-> ExitNoTunnels, tunnels |-> <<>>]
        ELSE IF ~sessionOk THEN [exit |-> ExitNoSession, tunnels |-> <<>>]
        ELSE [exit |-> None, tunnels |-> loaded.names \o cli]

Init ==
    /\ pc = "main"
    /\ daemon \in BOOLEAN
    /\ interval \in (IF daemon THEN {0, 1} ELSE {DefaultInterval})
    /\ \/ /\ configFile \in ConfigFiles
          /\ cliTunnels \in SeqUpTo(TunnelNames, MaxCli)
          /\ max_retries = DefaultMaxRetries
          /\ retry_delay = DefaultRetryDelay
       \/ /\ configFile \in { f \in ConfigFiles : Range(f.names) \subseteq PlainNames }
          /\ cliTunnels \in SeqUpTo(PlainNames, MaxCli)
          /\ max_retries \in 0..MaxRetriesArg
          /\ retry_delay \in -1..MaxRetryDelay
    /\ tunnels = <<>>
    /\ downTunnels = <<>>
    /\ rec = NoRecord
    /\ prevDown = <<>>
    /\ nrec = 0
    /\ seenUp = {}
    /\ idx = 0
    /\ action = "none"
    /\ attempt = 0
    /\ cmdResult = "None"
    /\ log = <<>>
    /\ reports = <<>>
    /\ result = None
    /\ exitCode = None
    /\ raised = "none"

\* the main program up to the call of run_daemon or run
Main ==
    /\ pc = "main"
    /\ \E sessionOk \in BOOLEAN :
         LET made == TunnelCheckerInit(configFile, cliTunnels, sessionOk)
         IN  IF daemon /\ interval < 1
             THEN /\ pc' = "exit"
                  /\ exitCode' = ExitBadArguments
                  /\ UNCHANGED tunnels
             ELSE IF made.exit # None
             THEN /\ pc' = "exit"
                  /\ exitCode' = made.exit
                  /\ UNCHANGED tunnels
             ELSE /\ pc' = "run"
                  /\ tunnels' = made.tunnels
                  /\ UNCHANGED exitCode
    /\ UNCHANGED << raised, argVars, matchVars, cmdVars, logVars, result >>

\* ---------------------------------------------------------------- matching
\* the return statements of run: lines 215, 220 and 223
ReturnPcs == { "return215", "return220", "return223" }

ResultQueryFailedDistinct == 1 + 1

ResultQueryFailed == 1

ResultAllUp == 0

\* line 220: the value after resetTunnels, whatever the reports say
ResultAfterResetAsDocumented(done) ==
    IF \A i \in 1..Len(done) : done[i].outcome = "reset" THEN 0 ELSE 1

ResultAfterReset(done) == 1

\* the text name and state of a record, or ok = FALSE when the conversion raises
Normalize(raw) ==
    IF ~raw.wellformed THEN [ok |-> FALSE, name |-> <<>>, state |-> "none"]
    ELSE IF raw.state.type # "bytes" THEN [ok |-> FALSE, name |-> <<>>, state |-> "none"]
    ELSE IF raw.name.type = "bytes"
         THEN LET d == Utf8Decode(raw.name.data)
              IN  IF d.ok THEN [ok |-> TRUE, name |-> d.text, state |-> raw.state.data]
                  ELSE [ok |-> FALSE, name |-> <<>>, state |-> "none"]
    ELSE [ok |-> TRUE, name |-> raw.name.data, state |-> raw.state.data]

\* the body of the loop over child-sas: the down list after one record
MatchRecordAnyState(down, name, state) ==
    IF In(name, down) /\ state = "INSTALLED" THEN Remove(down, name)
    ELSE LET lastDash == rfind(name, "-")
             rest == SubSeq(name, 1, lastDash)
         IN  IF lastDash > 0 /\ isnumeric(SubSeq(name, lastDash + 2, Len(name)))
                /\ In(rest, down)
             THEN Remove(down, rest)
             ELSE down

\* the loop body without the 'continue' of line 201
MatchRecordNoContinue(down, name, state) ==
    LET exact == IF In(name, down) /\ state = "INSTALLED" THEN Remove(down, name) ELSE down
        lastDash == rfind(name, "-")
        rest == SubSeq(name, 1, lastDash)
    IN  IF lastDash > 0 /\ isnumeric(SubSeq(name, lastDash + 2, Len(name)))
           /\ In(rest, exact) /\ state = "INSTALLED"
        THEN Remove(exact, rest)
        ELSE exact

MatchRecord(down, name, state) ==
    IF In(name, down) /\ state = "INSTALLED" THEN Remove(down, name)
    ELSE LET lastDash == rfind(name, "-")
             rest == SubSeq(name, 1, lastDash)
         IN  IF lastDash > 0 /\ isnumeric(SubSeq(name, lastDash + 2, Len(name)))
                /\ In(rest, down) /\ state = "INSTALLED"
             THEN Remove(down, rest)
             ELSE down

\* lines 191-212 on one child-SA entry: whether they raise, and the down list
\* they leave
LoopBody(down, raw) ==
    LET n == Normalize(raw)
    IN  IF n.ok THEN [raises |-> FALSE, down |-> MatchRecord(down, n.name, n.state)]
        ELSE [raises |-> TRUE, down |-> down]

\* name is n followed by "-" and a non-empty string of decimal digits
IsNumbered(n, name) ==
    /\ Len(name) > Len(n) + 1
    /\ SubSeq(name, 1, Len(n)) = n
    /\ name[Len(n) + 1] = "-"
    /\ \A i \in (Len(n) + 2)..Len(name) : name[i] \in DecimalChars

\* an INSTALLED record that shows the configured tunnel n to be up
ShowsUp(n, name, state) ==
    /\ state = "INSTALLED"
    /\ (name = n \/ IsNumbered(n, name))

\* run, line 182, with the down list the cycle before has left
RunBeginKeepsDownList ==
    /\ pc = "run"
    /\ pc' = "listing"
    /\ downTunnels' = (IF result = None THEN tunnels ELSE downTunnels)
    /\ rec' = NoRecord
    /\ prevDown' = downTunnels'
    /\ nrec' = 0
    /\ seenUp' = {}
    /\ idx' = 0
    /\ action' = "none"
    /\ attempt' = 0
    /\ cmdResult' = "None"
    /\ log' = <<>>
    /\ reports' = <<>>
    /\ result' = None
    /\ UNCHANGED << raised, argVars, tunnels, exitCode >>

\* run, line 182
RunBegin ==
    /\ pc = "run"
    /\ pc' = "listing"
    /\ downTunnels' = tunnels
    /\ rec' = NoRecord
    /\ prevDown' = tunnels
    /\ nrec' = 0
    /\ seenUp' = {}
    /\ idx' = 0
    /\ action' = "none"
    /\ attempt' = 0
    /\ cmdResult' = "None"
    /\ log' = <<>>
    /\ reports' = <<>>
    /\ result' = None
    /\ UNCHANGED << raised, argVars, tunnels, exitCode >>

\* list_sas() delivers one more child-SA entry and the loop body runs on it
ListSasRecord ==
    /\ pc = "listing"
    /\ nrec < MaxRecords
    /\ \E raw \in RawRecords :
         LET n == Normalize(raw)
             body == LoopBody(downTunnels, raw)
         IN  IF ~body.raises
                THEN /\ rec' = [name |-> n.name, state |-> n.state]
                     /\ prevDown' = downTunnels
                     /\ nrec' = nrec + 1
                     /\ downTunnels' = body.down
                     /\ seenUp' = seenUp \cup
                            { t \in Range(tunnels) : ShowsUp(t, n.name, n.state) }
                     /\ pc' = "listing"
                     /\ UNCHANGED result
                ELSE /\ rec' = NoRecord
                     /\ prevDown' = downTunnels
                     /\ nrec' = 0
                     /\ pc' = "return215"
                     /\ result' = ResultQueryFailed
                     /\ UNCHANGED << downTunnels, seenUp >>
    /\ UNCHANGED << raised, argVars, tunnels, cmdVars, logVars, exitCode >>

\* list_sas() raises (transport error of the VICI session)
ListSasRaise ==
    /\ pc = "listing"
    /\ pc' = "return215"
    /\ result' = ResultQueryFailed
    /\ rec' = NoRecord
    /\ prevDown' = downTunnels
    /\ nrec' = 0
    /\ UNCHANGED << raised, argVars, tunnels, downTunnels, seenUp, cmdVars, logVars, exitCode >>

\* list_sas() is exhausted: lines 217-223 up to the first external call
ListSasEnd ==
    /\ pc = "listing"
    /\ rec' = NoRecord
    /\ IF Len(downTunnels) > 0
       THEN /\ pc' = "cmd"
            /\ idx' = 1
            /\ action' = "down"
            /\ attempt' = 0
            /\ UNCHANGED result
       ELSE /\ pc' = "return223"
            /\ result' = ResultAllUp
            /\ UNCHANGED << idx, action, attempt >>
    /\ prevDown' = downTunnels
    /\ nrec' = 0
    /\ UNCHANGED << raised, argVars, tunnels, downTunnels, seenUp, cmdResult, logVars, exitCode >>

\* ------------------------------------------------------------- remediation
\* entries of log: a subprocess.run of ipsec and a completed time.sleep
RunEvent(a, t, ok) ==
    [ev |-> "run", action |-> a, tunnel |-> t, ok |-> ok, secs |-> 0]

SleepEvent(a, secs) ==
    [ev |-> "sleep", action |-> a, tunnel |-> <<>>, ok |-> TRUE, secs |-> secs]

\* how resetTunnels ended for one entry: the message of line 169, 171 or 173,
\* and whether 'down' and 'up' were started for it at all
Ran(l, a) == \E i \in 1..Len(l) : l[i].ev = "run" /\ l[i].action = a

Report(t, a, res, l) ==
    [tunnel |-> t,
     outcome |-> IF a = "down" THEN "downfailed"
                 ELSE IF res = "True" THEN "reset" ELSE "upfailed",
     downRan |-> Ran(l, "down"),
     downOk |-> \E i \in 1..Len(l) : l[i].ev = "run" /\ l[i].action = "down" /\ l[i].ok,
     upRan |-> Ran(l, "up")]

\* line 163: the test that lets 'up' follow
DownSucceededIgnored(a, res) == a = "down"

DownSucceeded(a, res) == a = "down" /\ res = "True"

Outcomes == { "zero", "nonzero", "timeout", "error" }

\* 2 ** n
RECURSIVE Pow2(_)
Pow2(n) == IF n = 0 THEN 1 ELSE 2 * Pow2(n - 1)

\* line 145
BackoffDelay(delay, n) == delay * Pow2(n)

\* line 144: a wait follows the failed attempt n
WaitsAfter(n, retries) == n < retries - 1

\* an 'except Exception' clause (lines 140, 213, 245) takes every exception
\* but those that derive from BaseException only, such as KeyboardInterrupt
ExceptionCatchesAll(kind) == TRUE

ExceptionCatches(kind) == kind # "KeyboardInterrupt"

\* an exception leaves run: run_daemon (lines 242-247) turns a
\* KeyboardInterrupt into exit status 0 and an Exception into 6, the one-shot
\* program ends with the interpreter's status
Escapes(kind) ==
    /\ pc' = "exit"
    /\ raised' = kind
    /\ exitCode' =
         IF daemon
         THEN IF kind = "KeyboardInterrupt" THEN ExitInterrupted
              ELSE IF ExceptionCatches(kind) THEN ExitFatal
              ELSE ExitUncaught
         ELSE IF kind = "KeyboardInterrupt" THEN ExitSigInt ELSE ExitUncaught

\* _run_ipsec_command, lines 121-141: one pass of the loop body up to the wait
Attempt ==
    /\ pc = "cmd"
    /\ attempt < max_retries
    /\ \E out \in Outcomes :
         /\ log' = Append(log, RunEvent(action, downTunnels[idx], out = "zero"))
         /\ IF out = "zero"
            THEN /\ pc' = "cmdret"
                 /\ cmdResult' = "True"
                 /\ UNCHANGED attempt
            ELSE IF WaitsAfter(attempt, max_retries)
            THEN /\ pc' = "backoff"
                 /\ UNCHANGED << attempt, cmdResult >>
            ELSE /\ pc' = "cmd"
                 /\ attempt' = attempt + 1
                 /\ UNCHANGED cmdResult
    /\ UNCHANGED << raised, argVars, tunnels, matchVars, idx, action, reports, result, exitCode >>

\* lines 145-147: the wait before the next attempt; time.sleep raises
\* ValueError for a negative length
Backoff ==
    /\ pc = "backoff"
    /\ LET delay == BackoffDelay(retry_delay, attempt)
       IN  IF delay < 0
           THEN /\ Escapes("ValueError")
                /\ UNCHANGED << attempt, log >>
           ELSE /\ pc' = "cmd"
                /\ attempt' = attempt + 1
                /\ log' = Append(log, SleepEvent(action, delay))
                /\ UNCHANGED << exitCode, raised >>
    /\ UNCHANGED << argVars, tunnels, matchVars, idx, action, cmdResult, reports, result >>

\* lines 149-150: the loop is over without a success
Exhausted ==
    /\ pc = "cmd"
    /\ ~(attempt < max_retries)
    /\ pc' = "cmdret"
    /\ cmdResult' = "False"
    /\ UNCHANGED << raised, argVars, tunnels, matchVars, idx, action, attempt, logVars,
                    result, exitCode >>

\* resetTunnels, lines 163 and 165: 'down' succeeded, the settle delay follows
Settle ==
    /\ pc = "cmdret"
    /\ DownSucceeded(action, cmdResult)
    /\ pc' = "cmd"
    /\ action' = "up"
    /\ attempt' = 0
    /\ cmdResult' = "None"
    /\ log' = Append(log, SleepEvent("settle", SettleDelay))
    /\ UNCHANGED << raised, argVars, tunnels, matchVars, idx, reports, result, exitCode >>

\* resetTunnels, lines 168-173 and the loop head 159; run, line 220
NextTunnel ==
    /\ pc = "cmdret"
    /\ ~DownSucceeded(action, cmdResult)
    /\ reports' = Append(reports, Report(downTunnels[idx], action, cmdResult, log))
    /\ log' = <<>>
    /\ cmdResult' = "None"
    /\ attempt' = 0
    /\ IF idx < Len(downTunnels)
       THEN /\ pc' = "cmd"
            /\ idx' = idx + 1
            /\ action' = "down"
            /\ UNCHANGED result
       ELSE /\ pc' = "return220"
            /\ result' = ResultAfterReset(reports')
            /\ UNCHANGED << idx, action >>
    /\ UNCHANGED << raised, argVars, tunnels, matchVars, exitCode >>

\* ------------------------------------------------------------------ driver
\* run has returned: line 329 exits with the value, run_daemon goes to sleep
RunReturnStopsOnFailure ==
    /\ pc \in ReturnPcs
    /\ IF daemon /\ result = ResultAllUp
       THEN /\ pc' = "sleep"
            /\ UNCHANGED exitCode
       ELSE /\ pc' = "exit"
            /\ exitCode' = result
    /\ UNCHANGED << raised, argVars, tunnels, matchVars, cmdVars, logVars, result >>

RunReturn ==
    /\ pc \in ReturnPcs
    /\ IF daemon
       THEN /\ pc' = "sleep"
            /\ UNCHANGED exitCode
       ELSE /\ pc' = "exit"
            /\ exitCode' = result
    /\ UNCHANGED << raised, argVars, tunnels, matchVars, cmdVars, logVars, result >>

\* run_daemon, line 241, with the default of --interval for its length
DaemonSleepDefault ==
    /\ pc = "sleep"
    /\ pc' = "run"
    /\ log' = << SleepEvent("interval", DefaultInterval) >>
    /\ UNCHANGED << raised, argVars, tunnels, matchVars, cmdVars, reports, result, exitCode >>

\* run_daemon, line 241
DaemonSleep ==
    /\ pc = "sleep"
    /\ pc' = "run"
    /\ log' = << SleepEvent("interval", interval) >>
    /\ UNCHANGED << raised, argVars, tunnels, matchVars, cmdVars, reports, result, exitCode >>

\* KeyboardInterrupt while the program runs or waits. During the query it
\* passes the handler of line 213, during subprocess.run the handlers of lines
\* 138 and 140; where one of them takes it, the cycle goes on as after any
\* other failure of the query or of the attempt
Interrupt ==
    /\ pc \in { "run", "listing", "cmd", "backoff", "cmdret", "sleep" } \cup ReturnPcs
    /\ IF pc = "listing" /\ ExceptionCatches("KeyboardInterrupt")
       THEN /\ pc' = "return215"
            /\ result' = ResultQueryFailed
            /\ rec' = NoRecord
            /\ prevDown' = downTunnels
            /\ nrec' = 0
            /\ raised' = "KeyboardInterrupt"
            /\ UNCHANGED << downTunnels, seenUp, cmdVars, logVars, exitCode >>
       ELSE IF pc = "cmd" /\ attempt < max_retries /\ ExceptionCatches("KeyboardInterrupt")
       THEN /\ log' = Append(log, RunEvent(action, downTunnels[idx], FALSE))
            /\ IF WaitsAfter(attempt, max_retries)
               THEN pc' = "backoff" /\ UNCHANGED attempt
               ELSE pc' = "cmd" /\ attempt' = attempt + 1
            /\ raised' = "KeyboardInterrupt"
            /\ UNCHANGED << matchVars, idx, action, cmdResult, reports, result, exitCode >>
       ELSE /\ Escapes("KeyboardInterrupt")
            /\ UNCHANGED << matchVars, cmdVars, logVars, result >>
    /\ UNCHANGED << argVars, tunnels >>

Next ==
    \/ Main
    \/ RunBegin
    \/ ListSasRecord
    \/ ListSasRaise
    \/ ListSasEnd
    \/ Attempt
    \/ Backoff
    \/ Exhausted
    \/ Settle
    \/ NextTunnel
    \/ RunReturn
    \/ DaemonSleep
    \/ Interrupt

Spec == Init /\ [][Next]_vars

\* the steps of the program itself: every call it makes returns
Progress ==
    \/ Main
    \/ RunBegin
    \/ ListSasRecord
    \/ ListSasRaise
    \/ ListSasEnd
    \/ Attempt
    \/ Backoff
    \/ Exhausted
    \/ Settle
    \/ NextTunnel
    \/ RunReturn
    \/ DaemonSleep

\* the daemon started on tunnels with plain names, with no retry or with
\* retries, with a negative or a positive delay
DaemonInit ==
    /\ Init
    /\ daemon
    /\ Range(configFile.names) \subseteq PlainNames
    /\ Range(cliTunnels) \subseteq PlainNames
    /\ max_retries \in { 0, MaxRetriesArg - 1 }
    /\ retry_delay \in { -1, MaxRetryDelay }

\* the program is sequential: while it is not ended it takes its next step
FairSpec == DaemonInit /\ [][Next]_vars /\ WF_vars(Progress)

TypeOK ==
    /\ pc \in { "main", "run", "listing", "cmd", "backoff", "cmdret", "sleep", "exit" } \cup ReturnPcs
    /\ cmdResult \in { "None", "True", "False" }
    /\ result \in { None, 0, 1 }
    /\ raised \in { "none", "KeyboardInterrupt", "ValueError" }

\* ================================================================ properties
\* the query succeeded and the matching of this cycle is over
AfterQuery == pc \in { "cmd", "backoff", "cmdret", "return220", "return223" }

\* rec is a record the loop body has just run on, prevDown the down list before it
Processed == pc = "listing" /\ nrec > 0

AllShownUp == \A t \in Range(tunnels) : t \in seenUp

\* after is before without one of its entries x
OneLess(before, x, after) ==
    \E i \in 1..Len(before) :
        /\ before[i] = x
        /\ after = SubSeq(before, 1, i - 1) \o SubSeq(before, i + 1, Len(before))

Count(l, x) == Cardinality({ i \in 1..Len(l) : l[i] = x })

\* C1: when the query succeeds and every configured tunnel has an INSTALLED
\* record named N or N-<digits>, the down list ends empty, no remediation is
\* started and the cycle returns 0.
C1_AllUpNoRemediation ==
    (AfterQuery /\ AllShownUp) =>
        /\ pc = "return223"
        /\ downTunnels = <<>>
        /\ result = 0
        /\ log = <<>>
        /\ reports = <<>>

\* C2: a configured tunnel without an INSTALLED record named N or N-<digits> is
\* still in the down list when matching ends and 'down' is run for it in the
\* cycle; a tunnel leaves the down list only by such a record.
C2_NoDownTunnelMissed ==
    /\ AfterQuery =>
         \A t \in Range(tunnels) : t \notin seenUp => In(t, downTunnels)
    /\ pc = "return220" =>
         \A t \in Range(tunnels) : t \notin seenUp =>
            \E i \in 1..Len(reports) : reports[i].tunnel = t /\ reports[i].downRan
    /\ (Processed /\ downTunnels # prevDown) =>
         \E t \in Range(tunnels) :
            /\ ShowsUp(t, rec.name, rec.state)
            /\ OneLess(prevDown, t, downTunnels)

\* C3: an INSTALLED record named exactly N leaves N absent from the down list,
\* and a later such record removes nothing on the exact-match path.
C3_ExactMatchRemovesOnce ==
    (Processed /\ rec.state = "INSTALLED" /\ In(rec.name, tunnels)) =>
        /\ ~In(rec.name, downTunnels)
        /\ ~In(rec.name, prevDown) => Count(downTunnels, rec.name) = Count(prevDown, rec.name)

\* C4 as stated: an INSTALLED record N-<digits> removes N from the down list
\* whenever N is in it, whatever else is configured.
C4_SuffixAlwaysRemoves ==
    Processed /\ rec.state = "INSTALLED" =>
        \A t \in Range(tunnels) :
            (IsNumbered(t, rec.name) /\ In(t, prevDown)) => OneLess(prevDown, t, downTunnels)

\* C4 as amended: an INSTALLED record N-<digits> removes one entry N from the
\* down list when N is in it and the record's full identifier is not itself in
\* the down list; when the full identifier is in the down list, one entry of
\* that name is removed and nothing else.
C4_SuffixRemovesUnlessExact ==
    Processed /\ rec.state = "INSTALLED" =>
        /\ \A t \in Range(tunnels) :
             (IsNumbered(t, rec.name) /\ In(t, prevDown) /\ ~In(rec.name, prevDown))
             => OneLess(prevDown, t, downTunnels)
        /\ In(rec.name, prevDown) => OneLess(prevDown, rec.name, downTunnels)

\* a record a-7-7 arrives while a-7 is down, and a record a-7 while a and a-7 are
C4_Witness ==
    /\ Processed
    /\ rec.state = "INSTALLED"
    /\ \E t \in Range(tunnels) :
          /\ IsNumbered(t, rec.name)
          /\ In(t, prevDown)
          /\ rfind(t, "-") > 0
          /\ ~In(t, downTunnels)

\* C5: a record whose state is not INSTALLED leaves the down list as it was.
C5_NotInstalledKeepsDownList ==
    (Processed /\ rec.state # "INSTALLED") => downTunnels = prevDown

\* a CONNECTING record N-<digits> arrives while N is down
C5_Witness ==
    /\ Processed
    /\ rec.state = "CONNECTING"
    /\ \E t \in Range(tunnels) : IsNumbered(t, rec.name) /\ In(t, prevDown)

\* the subprocess.run and backoff sleep calls of the call of _run_ipsec_command
\* that is under way or has just returned
CmdLog == SelectSeq(log, LAMBDA e : e.action = action)

Last(l) == l[Len(l)]

\* C6: a command that fails k < max_retries times and then succeeds is run
\* exactly k+1 times and yields True; the wait after failed attempt i is
\* retry_delay * 2^i and no wait follows the success. A failed attempt that is
\* not the last one is therefore followed by its wait and the next attempt: the
\* call does not end in an exception there.
C6_RetryThenSucceed ==
    /\ (pc = "cmdret" /\ cmdResult = "True") =>
         LET c == CmdLog
             k == (Len(c) - 1) \div 2
         IN  /\ Len(c) = 2 * k + 1
             /\ k < max_retries
             /\ \A i \in 0..k :
                  /\ c[2 * i + 1].ev = "run"
                  /\ c[2 * i + 1].ok = (i = k)
             /\ \A i \in 0..(k - 1) :
                  /\ c[2 * i + 2].ev = "sleep"
                  /\ c[2 * i + 2].secs = retry_delay * (2 ^ i)
    /\ (log # <<>> /\ Last(log).ev = "run" /\ ~Last(log).ok /\ attempt < max_retries - 1) =>
         ~(pc = "exit" /\ exitCode \in { ExitFatal, ExitUncaught })

AllReset == \A i \in 1..Len(reports) : reports[i].outcome = "reset"

C9_ResetCycleReturnsZero ==
    (pc = "return220" /\ AllReset) => result = 0

\* C10 as stated: the value of a cycle whose query failed differs from the
\* value of a cycle that found tunnels down.
C10_QueryFailureDistinct ==
    pc = "return215" => result # ResultAfterReset(reports)

\* C10 as amended: a cycle whose query failed returns 1, the value a cycle that
\* found tunnels down returns too, and has run no remediation command.
C10_QueryFailureReturnsOne ==
    /\ pc = "return215" => (result = 1 /\ log = <<>> /\ reports = <<>>)
    /\ pc = "return220" => result = 1

\* the query fails after a record has taken a tunnel off the down list
C10_Witness == pc = "return215" /\ downTunnels # tunnels

\* run_daemon is under way or has ended the process
InDaemonLoop == daemon /\ pc # "main" /\ tunnels # <<>>

\* C11: run_daemon does not return; an interrupt at any point of the loop ends
\* the process with exit status 0 and no handler of a cycle or of a command
\* takes it; any other exception that leaves a cycle ends it with status 6.
C11_DaemonLeavesLoopTwoWays ==
    InDaemonLoop =>
        /\ raised = "KeyboardInterrupt" => (pc = "exit" /\ exitCode = 0)
        /\ raised \notin { "none", "KeyboardInterrupt" } => (pc = "exit" /\ exitCode = 6)
        /\ pc = "exit" => raised # "none"

\* an interrupt has arrived during the query, after a record was matched
C11_Witness ==
    /\ InDaemonLoop
    /\ raised = "KeyboardInterrupt"
    /\ pc = "exit"
    /\ nrec > 0

\* the entry the session delivers for the characters of name and state, each
\* as bytes or as text
RawOf(nameType, name, stateType, state) ==
    [wellformed |-> TRUE,
     name |-> [type |-> nameType,
               data |-> IF nameType = "bytes" THEN Utf8Encode(name) ELSE name],
     state |-> [type |-> stateType, data |-> state]]

\* C12: the loop body leaves the same down list for the four ways (identifier
\* bytes or text, state bytes or text) an entry can carry the same characters,
\* and raises for none of them.
C12_RepresentationIndependent ==
    pc = "listing" =>
        \A name \in RecordNames, state \in States :
            \A nameType \in { "bytes", "str" }, stateType \in { "bytes", "str" } :
                LET body == LoopBody(downTunnels, RawOf(nameType, name, stateType, state))
                IN  /\ ~body.raises
                    /\ body.down = MatchRecord(downTunnels, name, state)

\* C13: once the TunnelChecker is constructed, no identifier occurs more than once in
\* self.tunnels; a name of both the configuration file and the command line
\* is one monitored tunnel.
C13_NoDuplicateTunnels ==
    pc \notin { "main", "exit" } =>
        \A t \in Range(tunnels) : Count(tunnels, t) = 1

\* name has a "-" after its first character that is followed by one or more
\* characters, all of them decimal digits
HasDecimalSuffix(name) ==
    \E i \in 2..(Len(name) - 1) :
        /\ name[i] = "-"
        /\ \A j \in (i + 1)..Len(name) : name[j] \in DecimalChars

\* C14: a record whose identifier has no "-", only a leading "-", nothing after
\* its last "-", or a character other than a decimal digit after its last "-"
\* removes no tunnel by the suffix check: the down list is left as it was
\* unless the identifier itself is an entry of it.
C14_NoRemovalWithoutDecimalSuffix ==
    (Processed /\ ~HasDecimalSuffix(rec.name)) =>
        \/ downTunnels = prevDown
        \/ In(rec.name, prevDown) /\ OneLess(prevDown, rec.name, downTunnels)

\* C15: a record removes at most one entry of the down list. An INSTALLED
\* record whose identifier X is an entry removes one X and nothing else, also
\* when X is B-<digits> and B is an entry; when X is not an entry (any more) and
\* X is B-<digits> for an entry B, the record removes one B.
C15_ExactMatchFirst ==
    Processed =>
        /\ Len(downTunnels) >= Len(prevDown) - 1
        /\ (rec.state = "INSTALLED" /\ In(rec.name, prevDown)) =>
               OneLess(prevDown, rec.name, downTunnels)
        /\ \A B \in Range(prevDown) :
               (rec.state = "INSTALLED" /\ IsNumbered(B, rec.name) /\ ~In(rec.name, prevDown)) =>
                   OneLess(prevDown, B, downTunnels)

\* B and X = B-7 are configured; a first record X has removed X, the same
\* record has come again and removed B
C15_Witness ==
    /\ Processed
    /\ nrec = 2
    /\ rec.state = "INSTALLED"
    /\ In(rec.name, tunnels)
    /\ ~In(rec.name, prevDown)
    /\ \E B \in Range(prevDown) : IsNumbered(B, rec.name)
    /\ downTunnels = <<>>

\* C16: for every max_retries and retry_delay the command line accepts, a
\* command whose attempts all fail ends without an exception leaving it; it
\* returns False after exactly max_retries runs of the tool (none when
\* max_retries <= 0), with a wait after each of them but the last.
C16_ExhaustedReturnsFalse ==
    /\ raised # "ValueError"
    /\ (pc = "cmdret" /\ cmdResult = "False") =>
         LET c == CmdLog
             m == IF max_retries > 0 THEN max_retries ELSE 0
         IN  /\ Len(c) = IF m > 0 THEN 2 * m - 1 ELSE 0
             /\ \A i \in 1..m :
                  /\ c[2 * i - 1].ev = "run"
                  /\ ~c[2 * i - 1].ok
             /\ \A i \in 1..(m - 1) :
                  /\ c[2 * i].ev = "sleep"
                  /\ c[2 * i].secs = retry_delay * (2 ^ (i - 1))

\* resetTunnels is under way
Resetting == pc \in { "cmd", "backoff", "cmdret" }

\* C17: resetTunnels takes the entries of the down list one after the other,
\* in the order of the list, each once; every run of the tool for an entry is
\* over before the next entry is begun; and when the cycle is over every entry
\* has been taken, whichever commands failed: no failure of a command ends the
\* cycle before the last entry is begun.
C17_RemediationSequentialComplete ==
    /\ Resetting =>
         /\ idx \in 1..Len(downTunnels)
         /\ Len(reports) = idx - 1
         /\ \A i \in 1..Len(reports) : reports[i].tunnel = downTunnels[i]
         /\ \A i \in 1..Len(log) : log[i].ev = "run" => log[i].tunnel = downTunnels[idx]
    /\ pc = "return220" =>
         /\ Len(reports) = Len(downTunnels)
         /\ \A i \in 1..Len(reports) : reports[i].tunnel = downTunnels[i]
    /\ (pc = "exit" /\ raised = "ValueError") => idx = Len(downTunnels)

\* C18: when the query or the processing of a record raises, the cycle ends
\* with the failure result and without a remediation command, whatever was
\* matched before; the daemon then sleeps and begins the next cycle instead of
\* ending, unless it is interrupted.
C18_QueryFailureRecoverable ==
    [][ /\ (pc = "listing" /\ pc' = "return215") =>
             /\ result' = ResultQueryFailed
             /\ log' = <<>> /\ reports' = <<>>
             /\ exitCode' = None
        /\ (daemon /\ pc = "return215" /\ raised' = raised) =>
             /\ pc' = "sleep"
             /\ log' = <<>> /\ reports' = <<>>
             /\ exitCode' = None
        /\ (pc = "sleep" /\ result = ResultQueryFailed /\ raised' = raised) =>
             /\ pc' = "run"
             /\ exitCode' = None
      ]_vars

\* the daemon is about to begin the cycle after one whose query failed when a
\* record had already taken a tunnel off the down list
C18_Witness ==
    /\ daemon
    /\ pc = "run"
    /\ result = ResultQueryFailed
    /\ reports = <<>>
    /\ seenUp # {}
    /\ downTunnels # tunnels

\* C19: in the daemon a cycle begins only at the start and after a sleep, the
\* sleep begins only when the cycle has returned, whatever its result, and
\* lasts interval seconds; one sleep lies between two cycles. When every call
\* returns and neither an interrupt nor another exception ends the process,
\* every cycle reaches its sleep and every sleep is followed by a cycle.
C19_DaemonScheduling ==
    /\ [][ /\ (pc' = "sleep" /\ pc # "sleep") => (daemon /\ pc \in ReturnPcs)
           /\ (daemon /\ pc \in ReturnPcs /\ raised' = raised) => pc' = "sleep"
           /\ (pc = "sleep" /\ raised' = raised) =>
                  (pc' = "run" /\ log' = << SleepEvent("interval", interval) >>)
           /\ (pc' = "run" /\ pc # "run") => pc \in { "main", "sleep" }
           /\ (pc' = "listing" /\ pc # "listing") => pc = "run"
         ]_vars
    /\ (InDaemonLoop /\ pc = "run") ~> (pc = "sleep" \/ raised # "none")
    /\ (InDaemonLoop /\ pc = "sleep") ~> (pc = "run" \/ raised # "none")

\* a cycle that reset tunnels is over, the sleep is over, the next cycle is
\* about to begin
C19_Witness ==
    /\ daemon
    /\ pc = "run"
    /\ log = << SleepEvent("interval", interval) >>
    /\ reports # <<>>

\* C20: run and resetTunnels leave self.tunnels, max_retries and retry_delay
\* as the constructor set them, and a cycle begins with the whole configured
\* list as its down list and with nothing else of the cycle before.
C20_NoStateAcrossCycles ==
    [][ /\ pc # "main" =>
             /\ tunnels' = tunnels
             /\ max_retries' = max_retries
             /\ retry_delay' = retry_delay
        /\ (pc = "run" /\ pc' = "listing") =>
             /\ downTunnels' = tunnels
             /\ seenUp' = {}
             /\ nrec' = 0
             /\ << idx', action', attempt', cmdResult' >> = << 0, "none", 0, "None" >>
             /\ log' = <<>> /\ reports' = <<>>
             /\ result' = None
      ]_vars

\* a cycle has taken one of two tunnels off its down list and reset the other;
\* both are still configured when the next cycle is about to begin
C20_Witness ==
    /\ daemon
    /\ pc = "run"
    /\ result # None
    /\ reports # <<>>
    /\ Len(tunnels) = 2
    /\ Len(downTunnels) = 1

====
